---- MODULE Spec2Model ----
(***************************************************************************)
(* monkeyvec: a growable buffer on realloc/free (src/monkeyvec/src/lib.rs). *)
(*                                                                         *)
(* The heap is a map from addresses to blocks; a block is the sequence of  *)
(* its slots.  realloc may refuse, may grow in place or move the block,    *)
(* and fills the slots it adds with arbitrary bytes.  Two Vec bindings     *)
(* ("a", "b") and one IntoIter share the heap.  Every public method is one *)
(* action; the allocator's behaviour during the call is an input.          *)
(* Sizes are machine words of WordBits bits: a sum or product above the     *)
(* largest word panics in a build that checks arithmetic and wraps in one  *)
(* that does not.                                                          *)
(***************************************************************************)
EXTENDS Integers, Sequences, FiniteSets, TLC

\* Largest recorded capacity / length the model lets a call reach.
MaxCap == 3
\* Longest slice handed to from_slice / extend_from_slice.
MaxSlice == 2
\* Number of heap addresses.
NAddr == 3
\* append may see the allocator refuse its k-th request, k in 1..MaxFailAt.
MaxFailAt == 2
\* Width of the machine word (usize) in bits.
WordBits == 4

\* Element values: 0 is the all-zero bit pattern.
Values == {0, 1}
Vecs == {"a", "b"}
NULL == 0
Addrs == 1..NAddr

Max(x, y) == IF x >= y THEN x ELSE y

\* usize: the largest word, and what arithmetic that does not check yields.
WordMax == 2^WordBits - 1
Wrap(x) == x % (WordMax + 1)
\* mem::size_of::<T>() of the element type, in bytes.
ElemSize == 2

VARIABLES
  vecs,     \* binding -> Vec { ptr, cap, len }
  alive,    \* the bindings that hold a Vec (not dropped, not moved out)
  heap,     \* address -> block
  it,       \* the IntoIter { buf, ptr, end }, ptr/end as slot offsets from buf
  last,     \* the last call: its name, argument, result and what it touched
  foreign,  \* what a read outside every block returns right now
  build,    \* "debug": arithmetic overflow panics; "release": it wraps
  hist      \* binding -> has it only been pushed to since Vec::new, and its growth steps

vars == <<vecs, alive, heap, it, last, foreign, build, hist>>

FreeBlock == [live |-> FALSE, data |-> <<>>]
EmptyVec == [ptr |-> NULL, cap |-> 0, len |-> 0]
NoIter == [alive |-> FALSE, buf |-> NULL, ptr |-> 0, end |-> 0]

\* Allocator behaviour during one call: which request it refuses (0: none),
\* whether a grown block moves, and the bytes found in fresh slots.
Allocs == [failAt : 0..1, move : BOOLEAN, g : Values]
AllocsMany == [failAt : 0..MaxFailAt, move : BOOLEAN, g : Values]
\* The allocator growing blocks where they are.
AllocsInPlace == [failAt : 0..1, move : {FALSE}, g : Values]
\* A first allocation has no block to move.
AllocsFresh == AllocsInPlace

Slices == UNION {[1..n -> Values] : n \in 0..MaxSlice}

\* Number of slots the allocation at p really has.
Slots(h, p) == IF p # NULL /\ h[p].live THEN Len(h[p].data) ELSE 0
InBlock(h, p, off) == off >= 0 /\ off < Slots(h, p)

\* The running state of one call: the Vec it works on, the heap, and notes.
World(v, h) ==
  [vec |-> v, heap |-> h, ok |-> TRUE, rp |-> NULL, ret |-> <<>>,
   calls |-> 0, grows |-> 0, refused |-> FALSE,
   oobw |-> FALSE, oobr |-> FALSE, bad |-> FALSE, trap |-> FALSE,
   panic |-> FALSE]

LowestFree(h) ==
  IF \E p \in Addrs : ~h[p].live
  THEN CHOOSE p \in Addrs : ~h[p].live /\ \A q \in Addrs : ~h[q].live => p <= q
  ELSE NULL

\* realloc(p, n slots): NULL and nothing changed on refusal; otherwise a block
\* of n slots holding the old block's first min(old, n) slots.
realloc(w, p, n, al) ==
  LET k == w.calls + 1
      held == p # NULL /\ w.heap[p].live
      old == IF held THEN w.heap[p].data ELSE <<>>
      q == IF held /\ ~al.move THEN p ELSE LowestFree(w.heap)
      blk == [live |-> TRUE,
              data |-> [i \in 1..n |-> IF i <= Len(old) THEN old[i] ELSE al.g]]
      h1 == IF held /\ q # p THEN [w.heap EXCEPT ![p] = FreeBlock] ELSE w.heap
  IN IF al.failAt = k \/ q = NULL
     THEN [w EXCEPT !.calls = k, !.refused = TRUE, !.rp = NULL]
     ELSE [w EXCEPT !.calls = k, !.grows = @ + 1, !.rp = q,
                    !.bad = @ \/ (p # NULL /\ ~held),
                    !.heap = [h1 EXCEPT ![q] = blk]]

\* free(p): a no-op on NULL; releasing what is not an allocation is noted.
free(w, p) ==
  IF p = NULL THEN w
  ELSE IF w.heap[p].live THEN [w EXCEPT !.heap[p] = FreeBlock]
  ELSE [w EXCEPT !.bad = TRUE]

\* An access through the null pointer traps (the process dies); any other
\* access outside the block goes to memory the Vec does not own.
\* ptr::write(p.offset(off), x)
write(w, p, off, x) ==
  IF InBlock(w.heap, p, off)
  THEN [w EXCEPT !.heap[p].data[off + 1] = x]
  ELSE IF p = NULL THEN [w EXCEPT !.trap = TRUE]
  ELSE [w EXCEPT !.oobw = TRUE]

\* ptr::write_bytes(p.offset(off), 0, count)
write_bytes(w, p, off, count) ==
  LET n == Slots(w.heap, p)
      h1 == IF n = 0 THEN w.heap
            ELSE [w.heap EXCEPT ![p].data =
                    [i \in 1..n |-> IF i - 1 >= off /\ i - 1 < off + count THEN 0 ELSE @[i]]]
  IN [w EXCEPT !.heap = h1,
                 !.oobw = @ \/ (p # NULL /\ count > 0 /\ off + count > n),
                 !.trap = @ \/ (p = NULL /\ count > 0)]

\* ptr::read(p.offset(off))
ReadAt(h, p, off) == IF InBlock(h, p, off) THEN h[p].data[off + 1] ELSE foreign

\* (a growth policy other than one slot per step)
NewCapPlus2(cap) == cap + 2
NewCap(cap) == cap + 1

\* A panic unwinds out of the call, as an Err leaves it through `?`.
Panic(w) == [w EXCEPT !.panic = TRUE, !.ok = FALSE]

\* new_cap * elem_size is a usize product; realloc gets that many bytes and
\* the block holds the whole elements that fit in them.
resize(w, al) ==
  LET new_cap == NewCap(w.vec.cap)
      bytes == new_cap * ElemSize
      r == realloc(w, w.vec.ptr, Wrap(bytes) \div ElemSize, al)
  IN IF bytes > WordMax /\ build = "debug" THEN Panic(w)
     ELSE IF r.rp = NULL THEN [r EXCEPT !.ok = FALSE]
     ELSE [write_bytes(r, r.rp, w.vec.len, new_cap - w.vec.cap)
             EXCEPT !.vec.ptr = r.rp, !.vec.cap = new_cap]

\* (a push that also grows when len is above cap)
PushMustGrowGe(v) == v.len >= v.cap
PushMustGrow(v) == v.len = v.cap

push(w, value, al) ==
  LET r == IF PushMustGrow(w.vec) THEN resize(w, al) ELSE w
  IN IF ~r.ok THEN r
     ELSE [write(r, r.vec.ptr, r.vec.len, value) EXCEPT !.vec.len = @ + 1]

pop(w) ==
  IF w.vec.len = 0 THEN [w EXCEPT !.ret = <<>>]
  ELSE [w EXCEPT !.vec.len = @ - 1,
                 !.ret = <<ReadAt(w.heap, w.vec.ptr, w.vec.len - 1)>>,
                 !.oobr = @ \/ (w.vec.ptr # NULL /\ ~InBlock(w.heap, w.vec.ptr, w.vec.len - 1)),
                 !.trap = @ \/ w.vec.ptr = NULL]

\* A clear that removes one element only.
ClearOne(w) == pop(w)

RECURSIVE clear(_)
clear(w) == IF pop(w).ret = <<>> THEN pop(w) ELSE clear(pop(w))

\* self.cap + additional is a usize sum.
reserve(w, additional, al) ==
  LET sum == w.vec.cap + additional
  IN IF sum > WordMax /\ build = "debug" THEN Panic(w)
     ELSE resize([w EXCEPT !.vec.cap = Max(1, Wrap(sum)) - 1], al)

\* Drop for Vec
drop(w) == LET c == clear(w) IN free(c, c.vec.ptr)

\* The live view (Deref): slots [0, len), empty without touching ptr when len = 0.
View(v, h) == [i \in 1..v.len |-> ReadAt(h, v.ptr, i - 1)]
ViewInBlock(v, h) == v.len <= Slots(h, v.ptr)

\* copy_from_slice onto the slots [off, off + Len(src))
copy_from_slice(w, p, off, src) ==
  LET n == Slots(w.heap, p)
      h1 == IF n = 0 THEN w.heap
            ELSE [w.heap EXCEPT ![p].data =
                    [i \in 1..n |-> IF i - 1 >= off /\ i - 1 < off + Len(src)
                                    THEN src[i - off] ELSE @[i]]]
  IN [w EXCEPT !.heap = h1,
                 !.oobw = @ \/ (p # NULL /\ Len(src) > 0 /\ off + Len(src) > n),
                 !.trap = @ \/ (p = NULL /\ Len(src) > 0)]

\* Vec::with_len: on Err the half-built Vec is dropped inside.
with_len(h, size, al) ==
  LET r == resize(World([ptr |-> NULL, cap |-> Max(1, size) - 1, len |-> 0], h), al)
  IN IF ~r.ok THEN drop(r) ELSE [r EXCEPT !.vec.len = size]

from_slice(h, other, al) ==
  LET r == with_len(h, Len(other), al)
  IN IF ~r.ok THEN r ELSE copy_from_slice(r, r.vec.ptr, 0, other)

extend_from_slice(w, other, al) ==
  LET r == reserve(w, Len(other), al)
  IN IF ~r.ok THEN r
     ELSE copy_from_slice([r EXCEPT !.vec.len = @ + Len(other)], r.vec.ptr, r.vec.len, other)

\* IntoIterator for Vec: the Vec is forgotten, the iterator holds its block.
\* An into_iter that starts one element late.
IntoIterLate(v) ==
  [alive |-> TRUE, buf |-> v.ptr, ptr |-> IF v.len > 0 THEN 1 ELSE 0, end |-> v.len]
into_iter(v) == [alive |-> TRUE, buf |-> v.ptr, ptr |-> 0, end |-> v.len]

\* Iterator::next: the world notes the element in ret (<<>> when exhausted).
next(w, itr) ==
  IF itr.ptr = itr.end THEN [w EXCEPT !.ret = <<>>]
  ELSE [w EXCEPT !.ret = <<ReadAt(w.heap, itr.buf, itr.ptr)>>,
                 !.oobr = @ \/ (itr.buf # NULL /\ ~InBlock(w.heap, itr.buf, itr.ptr)),
                 !.trap = @ \/ itr.buf = NULL]
advance(itr) == IF itr.ptr = itr.end THEN itr ELSE [itr EXCEPT !.ptr = @ + 1]

\* Drop for IntoIter
RECURSIVE iter_drop(_, _)
iter_drop(w, itr) ==
  IF next(w, itr).ret = <<>> THEN free(w, itr.buf)
  ELSE iter_drop(next(w, itr), advance(itr))

\* The for loop of append: each element is pushed; on Err the rest is dropped.
RECURSIVE append_loop(_, _, _)
append_loop(w, itr, al) ==
  LET n == next(w, itr)
  IN IF n.ret = <<>> THEN iter_drop(n, itr)
     ELSE LET r == push(n, n.ret[1], al)
          IN IF ~r.ok THEN iter_drop(r, advance(itr))
             ELSE append_loop(r, advance(itr), al)

\* Vec::append, mine being what was swapped out of other.
append(w, mine, al) ==
  LET r == reserve(w, mine.len, al)
  IN IF ~r.ok THEN [drop([r EXCEPT !.vec = mine]) EXCEPT !.vec = r.vec]
     ELSE append_loop(r, into_iter(mine), al)

Init ==
  /\ vecs = [v \in Vecs |-> EmptyVec]
  /\ alive = {"a"}
  /\ heap = [p \in Addrs |-> FreeBlock]
  /\ it = NoIter
  /\ last = [op |-> "new", v |-> "a", arg |-> <<>>, ok |-> TRUE, ret |-> <<>>,
             calls |-> 0, grows |-> 0, refused |-> FALSE,
             oobw |-> FALSE, oobr |-> FALSE, bad |-> FALSE, trap |-> FALSE,
             panic |-> FALSE]
  /\ foreign \in Values
  /\ build = "release"
  /\ hist = [v \in Vecs |-> [fresh |-> v = "a", grows |-> 0]]

Note(op, v, arg, w) ==
  [op |-> op, v |-> v, arg |-> arg, ok |-> w.ok, ret |-> w.ret,
   calls |-> w.calls, grows |-> w.grows, refused |-> w.refused,
   oobw |-> w.oobw, oobr |-> w.oobr, bad |-> w.bad, trap |-> w.trap,
   panic |-> w.panic]

\* The process is running: no call has trapped or panicked.
Running == ~last.trap /\ ~last.panic
\* The last call was op and returned Ok / Err.
ReturnedOk(l, op) == l.op = op /\ l.ok /\ ~l.trap /\ ~l.panic
ReturnedErr(l, op) == l.op = op /\ ~l.ok /\ ~l.trap /\ ~l.panic

Stale == [fresh |-> FALSE, grows |-> 0]

\* Vec::new
New(v) ==
  /\ Running
  /\ v \notin alive
  /\ vecs' = [vecs EXCEPT ![v] = EmptyVec]
  /\ alive' = alive \cup {v}
  /\ last' = Note("new", v, <<>>, World(EmptyVec, heap))
  /\ hist' = [hist EXCEPT ![v] = [fresh |-> TRUE, grows |-> 0]]
  /\ UNCHANGED <<heap, it, foreign, build>>

\* Requests of zero bytes are left out.
WithLen(v, size, al) ==
  /\ Running
  /\ v \notin alive
  /\ Wrap(Max(1, size) * ElemSize) # 0
  /\ LET w == with_len(heap, size, al)
     IN /\ vecs' = [vecs EXCEPT ![v] = IF w.ok THEN w.vec ELSE EmptyVec]
        /\ alive' = IF w.ok THEN alive \cup {v} ELSE alive
        /\ heap' = w.heap
        /\ last' = Note("with_len", v, <<size>>, w)
  /\ hist' = [hist EXCEPT ![v] = Stale]
  /\ UNCHANGED <<it, foreign, build>>

FromSlice(v, other, al) ==
  /\ Running
  /\ v \notin alive
  /\ LET w == from_slice(heap, other, al)
     IN /\ vecs' = [vecs EXCEPT ![v] = IF w.ok THEN w.vec ELSE EmptyVec]
        /\ alive' = IF w.ok THEN alive \cup {v} ELSE alive
        /\ heap' = w.heap
        /\ last' = Note("from_slice", v, other, w)
  /\ hist' = [hist EXCEPT ![v] = Stale]
  /\ UNCHANGED <<it, foreign, build>>

Push(v, x, al) ==
  /\ Running
  /\ v \in alive
  /\ vecs[v].len < MaxCap /\ vecs[v].cap <= MaxCap
  /\ LET w == push(World(vecs[v], heap), x, al)
     IN /\ vecs' = [vecs EXCEPT ![v] = w.vec]
        /\ heap' = w.heap
        /\ last' = Note("push", v, <<x>>, w)
        /\ hist' = [hist EXCEPT ![v].grows = IF hist[v].fresh THEN @ + w.grows ELSE 0]
  /\ UNCHANGED <<alive, it, foreign, build>>

Pop(v) ==
  /\ Running
  /\ v \in alive
  /\ LET w == pop(World(vecs[v], heap))
     IN /\ vecs' = [vecs EXCEPT ![v] = w.vec]
        /\ heap' = w.heap
        /\ last' = Note("pop", v, <<>>, w)
  /\ hist' = [hist EXCEPT ![v] = Stale]
  /\ UNCHANGED <<alive, it, foreign, build>>

\* Vec::clear; the note keeps the length that clear found.
Clear(v) ==
  /\ Running
  /\ v \in alive
  /\ LET w == clear(World(vecs[v], heap))
     IN /\ vecs' = [vecs EXCEPT ![v] = w.vec]
        /\ heap' = w.heap
        /\ last' = Note("clear", v, <<vecs[v].len>>, w)
  /\ hist' = [hist EXCEPT ![v] = Stale]
  /\ UNCHANGED <<alive, it, foreign, build>>

Reserve(v, additional, al) ==
  /\ Running
  /\ v \in alive
  /\ Max(1, Wrap(vecs[v].cap + additional)) <= MaxCap
  /\ LET w == reserve(World(vecs[v], heap), additional, al)
     IN /\ vecs' = [vecs EXCEPT ![v] = w.vec]
        /\ heap' = w.heap
        /\ last' = Note("reserve", v, <<additional>>, w)
  /\ hist' = [hist EXCEPT ![v] = Stale]
  /\ UNCHANGED <<alive, it, foreign, build>>

ExtendFromSlice(v, other, al) ==
  /\ Running
  /\ v \in alive
  /\ Max(1, vecs[v].cap + Len(other)) <= MaxCap
  /\ vecs[v].len + Len(other) <= MaxCap
  /\ LET w == extend_from_slice(World(vecs[v], heap), other, al)
     IN /\ vecs' = [vecs EXCEPT ![v] = w.vec]
        /\ heap' = w.heap
        /\ last' = Note("extend_from_slice", v, other, w)
  /\ hist' = [hist EXCEPT ![v] = Stale]
  /\ UNCHANGED <<alive, it, foreign, build>>

AppendFrom(v, o, al) ==
  /\ Running
  /\ v \in alive /\ o \in alive /\ v # o
  /\ Max(1, vecs[v].cap + vecs[o].len) <= MaxCap
  /\ vecs[v].len + vecs[o].len <= MaxCap
  /\ LET w == append(World(vecs[v], heap), vecs[o], al)
     IN /\ vecs' = [vecs EXCEPT ![v] = w.vec, ![o] = EmptyVec]
        /\ heap' = w.heap
        /\ last' = Note("append", v, <<>>, w)
  /\ hist' = [hist EXCEPT ![v] = Stale, ![o] = Stale]
  /\ UNCHANGED <<alive, it, foreign, build>>

Drop(v) ==
  /\ Running
  /\ v \in alive
  /\ LET w == drop(World(vecs[v], heap))
     IN /\ heap' = w.heap
        /\ last' = Note("drop", v, <<>>, w)
  /\ vecs' = [vecs EXCEPT ![v] = EmptyVec]
  /\ alive' = alive \ {v}
  /\ hist' = [hist EXCEPT ![v] = Stale]
  /\ UNCHANGED <<it, foreign, build>>

IntoIter(v) ==
  /\ Running
  /\ v \in alive /\ ~it.alive
  /\ it' = into_iter(vecs[v])
  /\ vecs' = [vecs EXCEPT ![v] = EmptyVec]
  /\ alive' = alive \ {v}
  /\ last' = Note("into_iter", v, <<>>, World(vecs[v], heap))
  /\ hist' = [hist EXCEPT ![v] = Stale]
  /\ UNCHANGED <<heap, foreign, build>>

IterNext ==
  /\ Running
  /\ it.alive
  /\ it' = advance(it)
  /\ last' = Note("next", "it", <<>>, next(World(EmptyVec, heap), it))
  /\ UNCHANGED <<vecs, alive, heap, foreign, build, hist>>

IterDrop ==
  /\ Running
  /\ it.alive
  /\ LET w == iter_drop(World(EmptyVec, heap), it)
     IN /\ heap' = w.heap
        /\ last' = Note("iter_drop", "it", <<>>, w)
  /\ it' = NoIter
  /\ UNCHANGED <<vecs, alive, foreign, build, hist>>

\* One Vec and every method that works on it alone.
Next ==
  \/ New("a")
  \/ \E n \in 0..MaxCap, al \in AllocsFresh : WithLen("a", n, al)
  \/ \E s \in Slices, al \in AllocsFresh : FromSlice("a", s, al)
  \/ \E x \in Values, al \in Allocs : Push("a", x, al)
  \/ Pop("a")
  \/ Clear("a")
  \/ \E n \in 0..MaxCap, al \in Allocs : Reserve("a", n, al)
  \/ \E s \in Slices, al \in Allocs : ExtendFromSlice("a", s, al)
  \/ Drop("a")

Spec == Init /\ [][Next]_vars

\* Two Vecs, the second one built from a slice and drained by append; blocks
\* move only inside append.
NextAppend ==
  \/ New("a")
  \/ \E x \in Values, al \in AllocsInPlace : Push("a", x, al)
  \/ \E n \in 0..MaxCap, al \in AllocsInPlace : Reserve("a", n, al)
  \/ Drop("a")
  \/ New("b")
  \/ \E s \in Slices, al \in AllocsFresh : FromSlice("b", s, al)
  \/ Drop("b")
  \/ \E al \in AllocsMany : AppendFrom("a", "b", al)

SpecAppend == Init /\ [][NextAppend]_vars

\* One Vec at a time and its move-out iterator.
NextIter ==
  \/ ~it.alive /\ New("a")
  \/ \E s \in Slices, al \in AllocsFresh : ~it.alive /\ FromSlice("a", s, al)
  \/ \E x \in Values, al \in Allocs : Push("a", x, al)
  \/ \E n \in 0..MaxCap, al \in Allocs : Reserve("a", n, al)
  \/ Drop("a")
  \/ IntoIter("a")
  \/ IterNext
  \/ IterDrop

SpecIter == Init /\ [][NextIter]_vars

\* One Vec, with sizes taken from the whole range of the word, in a build
\* that checks arithmetic and in one that does not.
InitWord ==
  /\ vecs = [v \in Vecs |-> EmptyVec]
  /\ alive = {"a"}
  /\ heap = [p \in Addrs |-> FreeBlock]
  /\ it = NoIter
  /\ last = [op |-> "new", v |-> "a", arg |-> <<>>, ok |-> TRUE, ret |-> <<>>,
             calls |-> 0, grows |-> 0, refused |-> FALSE,
             oobw |-> FALSE, oobr |-> FALSE, bad |-> FALSE, trap |-> FALSE,
             panic |-> FALSE]
  /\ foreign \in Values
  /\ build \in {"debug", "release"}
  /\ hist = [v \in Vecs |-> [fresh |-> v = "a", grows |-> 0]]

NextWord ==
  \/ New("a")
  \/ \E n \in 0..WordMax, al \in AllocsFresh : WithLen("a", n, al)
  \/ \E x \in Values, al \in AllocsInPlace : Push("a", x, al)
  \/ Pop("a")
  \/ \E n \in 0..WordMax, al \in AllocsInPlace : Reserve("a", n, al)
  \/ Drop("a")

SpecWord == InitWord /\ [][NextWord]_vars

(***************************************************************************)
(* Properties                                                              *)
(***************************************************************************)
OtherOf(v) == CHOOSE o \in Vecs : o # v
GrowOps == {"push", "reserve", "with_len", "from_slice", "extend_from_slice"}

\* C1: in every reachable state, allocator failures included, a Vec's length
\* is at most its capacity.
C1_LenLeCap == \A v \in alive : vecs[v].len <= vecs[v].cap

\* C2: a reserve that the allocator refuses returns Err and leaves length and
\* live elements as they were and the recorded capacity equal to the number of
\* slots the allocation really has.
C2_ReserveFailureConsistent ==
  [][ReturnedErr(last', "reserve") =>
       LET v == last'.v
       IN /\ vecs'[v].len = vecs[v].len
          /\ View(vecs'[v], heap') = View(vecs[v], heap)
          /\ vecs'[v].cap = Slots(heap', vecs'[v].ptr)]_vars

\* C3: push returns Err exactly when len = cap and the allocator refused the
\* growth request, and then ptr, cap, len and the heap are as before the call.
C3_PushFailure ==
  [][(last'.op = "push" /\ ~last'.trap) =>
       LET v == last'.v
       IN /\ (~last'.ok) <=> (vecs[v].len = vecs[v].cap /\ last'.refused)
          /\ (~last'.ok) => (vecs'[v] = vecs[v] /\ heap' = heap /\ alive' = alive)]_vars

\* C3 witness: a push on a full, non-empty Vec was refused.
C3_Witness ==
  /\ last.op = "push" /\ ~last.ok /\ last.refused
  /\ vecs[last.v].len = vecs[last.v].cap /\ vecs[last.v].len > 0

\* C4: after a successful with_len(n) the Vec has length n and each of its n
\* live slots holds the all-zero value.
C4_WithLenZeroed ==
  ReturnedOk(last, "with_len") =>
    LET v == vecs[last.v]
    IN /\ v.len = last.arg[1]
       /\ \A i \in 1..v.len : View(v, heap)[i] = 0

\* C5: every push that succeeds adds one to the length and makes the live view
\* the previous live view followed by the pushed value.
C5_PushExtendsView ==
  [][ReturnedOk(last', "push") =>
       LET v == last'.v
       IN /\ vecs'[v].len = vecs[v].len + 1
          /\ View(vecs'[v], heap') = Append(View(vecs[v], heap), last'.arg[1])]_vars

\* C6: after a successful append(a, b), b is empty and a's live view is a's
\* former view followed by b's former view.
C6_AppendConcatenates ==
  [][ReturnedOk(last', "append") =>
       LET v == last'.v
           o == OtherOf(v)
       IN /\ vecs'[o].len = 0
          /\ View(vecs'[v], heap') = View(vecs[v], heap) \o View(vecs[o], heap)]_vars

\* Every allocation has exactly one owner among the Vecs and the iterator.
Owners(p) ==
  {v \in alive : vecs[v].ptr = p} \cup (IF it.alive /\ it.buf = p THEN {"it"} ELSE {})
NoLeak == \A p \in Addrs : heap[p].live => Owners(p) # {}
SoleOwner == \A p \in Addrs : Cardinality(Owners(p)) <= 1
NoDangling == \A v \in alive : vecs[v].ptr # NULL => heap[vecs[v].ptr].live

\* C7: no call releases what is not an allocation, no allocation is left
\* without its owner, and every element a call moves out or destroys is read
\* from a slot of the allocation its Vec or iterator owns.
C7_ReleasedOnce ==
  /\ ~last.bad
  /\ NoLeak /\ SoleOwner /\ NoDangling
  /\ last.op \in {"drop", "next", "iter_drop", "append"} => ~last.oobr

\* C8 as stated: every successful allocator call adds exactly one slot to the
\* capacity.
C8_OneSlotPerGrowth ==
  [][(last'.op \in GrowOps /\ last'.grows > 0) =>
       vecs'[last'.v].cap = vecs[last'.v].cap + last'.grows]_vars

\* C8 amended: a growth in push adds exactly one slot; reserve, with_len,
\* from_slice and extend_from_slice make one allocator call and on success
\* reach max(1, cap + additional) (max(1, n) for the constructors) in that one
\* step; after any successful growth the allocation has cap slots.
C8_GrowthSteps ==
  [][(last'.op \in GrowOps /\ last'.ok /\ ~last'.trap) =>
       LET v == last'.v
           c == vecs[v].cap
           c1 == vecs'[v].cap
           n == IF last'.op \in {"from_slice", "extend_from_slice"}
                THEN Len(last'.arg) ELSE last'.arg[1]
       IN /\ last'.op = "push" =>
               \/ last'.grows = 0 /\ c1 = c
               \/ last'.grows = 1 /\ c1 = c + 1
          /\ last'.op # "push" =>
               /\ last'.calls = 1 /\ last'.grows = 1
               /\ c1 = Max(1, c + n)
          /\ last'.grows > 0 => Slots(heap', vecs'[v].ptr) = c1]_vars

\* C8 witness: one reserve(2) took a Vec of capacity 1 to capacity 3.
C8_Witness ==
  /\ last.op = "reserve" /\ last.ok /\ last.arg = <<2>> /\ last.calls = 1
  /\ vecs[last.v].cap = 3 /\ vecs[last.v].len = 1

\* C9: a Vec made by Vec::new and only pushed to since has capacity equal to
\* its length k, an allocation of k slots, and was grown by k allocator calls.
C9_FreshGrowth ==
  \A v \in alive :
    hist[v].fresh =>
      /\ vecs[v].cap = vecs[v].len
      /\ hist[v].grows = vecs[v].len
      /\ Slots(heap, vecs[v].ptr) = vecs[v].len

\* C9 witness: three pushes since Vec::new.
C9_Witness ==
  /\ "a" \in alive /\ hist["a"].fresh /\ vecs["a"].len = 3 /\ last.op = "push"

\* C10: a Vec whose capacity is 0 has the null pointer.
C10_ZeroCapNull == \A v \in alive : vecs[v].cap = 0 => vecs[v].ptr = NULL

\* C11 as stated: after a successful with_len(n) the capacity is n, for n = 0
\* too.
C11_WithLenCapExact ==
  ReturnedOk(last, "with_len") => vecs[last.v].cap = last.arg[1]

\* C11 amended: after a successful with_len(n) the capacity is max(1, n), the
\* allocation holds that many slots, and the length is n.
C11_WithLenCap ==
  ReturnedOk(last, "with_len") =>
    LET v == vecs[last.v]
    IN /\ v.cap = Max(1, last.arg[1])
       /\ Slots(heap, v.ptr) = v.cap
       /\ v.len = last.arg[1]

\* C11 witness: with_len(0) returned a Vec of capacity 1.
C11_Witness ==
  /\ ReturnedOk(last, "with_len") /\ last.arg = <<0>>
  /\ vecs[last.v].cap = 1 /\ vecs[last.v].len = 0

\* What an iterator has still to yield, in order.
Remaining(itr, h) ==
  [i \in 1..(itr.end - itr.ptr) |-> ReadAt(h, itr.buf, itr.ptr + i - 1)]

\* C12: into_iter leaves the whole live view to be yielded, in index order;
\* each next yields the first remaining element and removes just that one, and
\* with nothing remaining it reports exhausted and stays so; nothing else
\* changes what remains, so the elements come out in order, each once, and an
\* empty Vec's iterator is exhausted at once.
C12_MoveOutInOrder ==
  [][/\ last'.op = "into_iter" =>
          Remaining(it', heap') = View(vecs[last'.v], heap)
     /\ (last'.op = "next" /\ ~last'.trap) =>
          IF Remaining(it, heap) = <<>>
          THEN last'.ret = <<>> /\ it' = it
          ELSE /\ last'.ret = <<Head(Remaining(it, heap))>>
               /\ Remaining(it', heap') = Tail(Remaining(it, heap))
     /\ (it.alive /\ it'.alive /\ last'.op # "next") =>
          Remaining(it', heap') = Remaining(it, heap)]_vars

\* C12 witness: an iterator over two elements has yielded both and the call
\* after that reported exhausted.
C12_Witness ==
  /\ last.op = "next" /\ last.ret = <<>> /\ ~last.trap
  /\ it.alive /\ it.end = 2 /\ it.ptr = 2

\* The first n elements of a sequence.
Front(s, n) == [i \in 1..n |-> s[i]]

\* C13: a push that succeeds makes the live view the previous view followed by
\* the value, and a pop right after it returns that value and takes the length
\* and the live view back to what they were; a pop at length 0 returns no
\* element and changes nothing.
C13_PushThenPop ==
  [][/\ ReturnedOk(last', "push") =>
          View(vecs'[last'.v], heap') =
            Append(View(vecs[last'.v], heap), last'.arg[1])
     /\ (ReturnedOk(last, "push") /\ last'.op = "pop" /\ last'.v = last.v) =>
          LET v == last.v
          IN /\ last'.ret = last.arg
             /\ vecs'[v].len = vecs[v].len - 1
             /\ View(vecs'[v], heap') = Front(View(vecs[v], heap), vecs[v].len - 1)
     /\ (last'.op = "pop" /\ vecs[last'.v].len = 0) =>
          last'.ret = <<>> /\ vecs' = vecs /\ heap' = heap]_vars

\* C14: from_slice(data) that succeeds gives a Vec whose live view is data;
\* extend_from_slice(data) that succeeds adds Len(data) to the length and makes
\* the live view the previous view followed by data.
C14_SliceCopies ==
  [][/\ ReturnedOk(last', "from_slice") =>
          View(vecs'[last'.v], heap') = last'.arg
     /\ ReturnedOk(last', "extend_from_slice") =>
          LET v == last'.v
          IN /\ vecs'[v].len = vecs[v].len + Len(last'.arg)
             /\ View(vecs'[v], heap') = View(vecs[v], heap) \o last'.arg]_vars

\* C15: after a successful reserve(additional) the capacity is at least the
\* capacity before plus additional, and the length and the live view are as
\* before.
C15_ReserveKeepsView ==
  [][ReturnedOk(last', "reserve") =>
       LET v == last'.v
       IN /\ vecs'[v].cap >= vecs[v].cap + last'.arg[1]
          /\ vecs'[v].len = vecs[v].len
          /\ View(vecs'[v], heap') = View(vecs[v], heap)]_vars

\* C16: clear runs to its end without failing, leaves length 0, leaves the
\* capacity, the pointer and the heap as they were, and a pop right after it
\* returns no element.
C16_ClearEmpties ==
  [][/\ last'.op = "clear" =>
          LET v == last'.v
          IN /\ ~last'.trap /\ last'.ok
             /\ vecs'[v].len = 0
             /\ vecs'[v].cap = vecs[v].cap
             /\ vecs'[v].ptr = vecs[v].ptr
             /\ heap' = heap /\ alive' = alive
     /\ (last.op = "clear" /\ last'.op = "pop" /\ last'.v = last.v) =>
          last'.ret = <<>> /\ vecs' = vecs /\ heap' = heap]_vars

\* C16 witness: clear has emptied a Vec of two elements and left it its two
\* slots.
C16_Witness ==
  /\ last.op = "clear" /\ last.arg = <<2>> /\ ~last.trap
  /\ vecs[last.v].len = 0 /\ vecs[last.v].cap = 2
  /\ Slots(heap, vecs[last.v].ptr) = 2

\* C17: append(self, other) leaves other empty and without an allocation
\* whether it returns Ok or Err; when it returns Err the block taken from other
\* has been released, not given back, and self's live view is its former view
\* followed by some prefix of other's former view.
C17_AppendTakesOther ==
  [][(last'.op = "append" /\ ~last'.trap) =>
       LET v == last'.v
           o == OtherOf(v)
       IN /\ vecs'[o] = EmptyVec
          /\ ~last'.ok =>
               /\ vecs[o].ptr # NULL => ~heap'[vecs[o].ptr].live
               /\ \E k \in 0..vecs[o].len :
                    View(vecs'[v], heap') =
                      View(vecs[v], heap) \o Front(View(vecs[o], heap), k)]_vars

\* C18: no call writes a slot outside the allocation it writes to.
C18_WritesInBlock == ~last.oobw

\* C19: when capacity + additional in reserve, or new_capacity * element_size
\* in the resize that reserve or with_len runs, exceeds the largest word, the
\* call returns Err and leaves the Vec and the heap as they were (with_len
\* returns no Vec); it neither panics nor goes on with a wrapped value.
C19_NoWrapNoPanic ==
  [][/\ (last'.op = "reserve" /\
         (vecs[last'.v].cap + last'.arg[1] > WordMax \/
          Max(1, vecs[last'.v].cap + last'.arg[1]) * ElemSize > WordMax)) =>
          /\ ReturnedErr(last', "reserve")
          /\ vecs' = vecs /\ heap' = heap
     /\ (last'.op = "with_len" /\ Max(1, last'.arg[1]) * ElemSize > WordMax) =>
          /\ ReturnedErr(last', "with_len")
          /\ alive' = alive /\ heap' = heap]_vars
====
